---- MODULE Spec2Model ----
(***************************************************************************)
(* The two-pass BGF decoder of python_src/converter/                       *)
(* torch_geometric_exporter.py (load_bgf_two_pass_to_pyg_data_list_numpy)  *)
(* as a state machine over a byte file and a forward read position.        *)
(*                                                                         *)
(* Representation:                                                         *)
(*   - a file is a sequence of bytes (0..255); pos is the number of bytes  *)
(*     consumed so far (the offset of the underlying file object);         *)
(*   - a Python str is the sequence of its code points;                    *)
(*   - a 64-bit float is the tuple of its 8 bytes in little-endian order   *)
(*     (its bit pattern), the native order of the hosts torch runs on;     *)
(*   - a tensor is a record with the id of its buffer (buf) and its data.  *)
(***************************************************************************)
EXTENDS Integers, Sequences, FiniteSets, TLC

(* ------------------------------ bounds -------------------------------- *)

\* Total size of an input: the sum over its graphs of
\* 1 + nodes + node features + edges + edge features, plus one for every
\* departure from the default (name, byte order, size_t width, ...).
MaxWeight == 6

(* ------------------------- program constants -------------------------- *)

\* exporter.py:95   graph_number > 10**7
MaxGraphNumber == 10000000

\* "_" , the separator of h.name.split("_")
Underscore == 95

(* ----------------------------- byte codecs ---------------------------- *)

RECURSIVE Reverse(_)
Reverse(s) == IF s = <<>> THEN <<>> ELSE Reverse(Tail(s)) \o <<Head(s)>>

\* The k low bytes of v, least significant first (two's complement for v < 0).
RECURSIVE LEBytes(_, _)
LEBytes(v, k) == IF k = 0 THEN <<>> ELSE <<v % 256>> \o LEBytes(v \div 256, k - 1)

\* struct.pack(endian + fmt, v) for an integer format of k bytes.
Pack(v, k, e) == IF e = "<" THEN LEBytes(v, k) ELSE Reverse(LEBytes(v, k))

RECURSIVE FromLE(_)
FromLE(b) == IF b = <<>> THEN 0 ELSE Head(b) + 256 * FromLE(Tail(b))

\* struct.unpack(endian + "I" / "Q", b)[0]
UnpackUnsigned(b, e) == FromLE(IF e = "<" THEN b ELSE Reverse(b))

\* struct.unpack(endian + "i", b)[0]
UnpackSigned(b, e) ==
    LET le == IF e = "<" THEN b ELSE Reverse(b)
        top == IF le[4] >= 128 THEN le[4] - 256 ELSE le[4]
    IN  le[1] + 256 * le[2] + 65536 * le[3] + 16777216 * top

(* ------------------------------ readers ------------------------------- *)

\* Mutant of ReadExact: the bytes are returned but the position stays.
ReadExact_NoAdvance(f, p, n) ==
    IF p + n <= Len(f)
    THEN [ok |-> TRUE, val |-> SubSeq(f, p + 1, p + n), pos |-> p, err |-> ""]
    ELSE [ok |-> FALSE, val |-> <<>>, pos |-> Len(f), err |-> "EOFError"]

\* _read_exact: f.read(n) returns what is left when fewer than n bytes
\* remain, and then EOFError is raised.
ReadExact(f, p, n) ==
    IF p + n <= Len(f)
    THEN [ok |-> TRUE, val |-> SubSeq(f, p + 1, p + n), pos |-> p + n, err |-> ""]
    ELSE [ok |-> FALSE, val |-> <<>>, pos |-> Len(f), err |-> "EOFError"]

ReadInt(f, p, e) ==
    LET r == ReadExact(f, p, 4)
    IN  [r EXCEPT !.val = IF r.ok THEN UnpackSigned(r.val, e) ELSE 0]

ReadUint(f, p, e) ==
    LET r == ReadExact(f, p, 4)
    IN  [r EXCEPT !.val = IF r.ok THEN UnpackUnsigned(r.val, e) ELSE 0]

ReadSizeT(f, p, e, w) ==
    LET r == ReadExact(f, p, w)
    IN  [r EXCEPT !.val = IF r.ok THEN UnpackUnsigned(r.val, e) ELSE 0]

\* bytes.decode("utf-8", errors="strict"). The number of bytes of the
\* character a byte starts, 0 for a byte that starts none.
Utf8Len(b) ==
    IF b < 128 THEN 1
    ELSE IF b >= 194 /\ b <= 223 THEN 2
    ELSE IF b >= 224 /\ b <= 239 THEN 3
    ELSE IF b >= 240 /\ b <= 244 THEN 4
    ELSE 0

\* The second byte of a character: a continuation byte, within the range
\* that excludes overlong forms, surrogates and code points above 10FFFF.
Utf8Second(lead, c) ==
    CASE lead = 224 -> c >= 160 /\ c <= 191
      [] lead = 237 -> c >= 128 /\ c <= 159
      [] lead = 240 -> c >= 144 /\ c <= 191
      [] lead = 244 -> c >= 128 /\ c <= 143
      [] OTHER -> c >= 128 /\ c <= 191

RECURSIVE Utf8Valid(_)
Utf8Valid(b) ==
    IF b = <<>> THEN TRUE
    ELSE LET k == Utf8Len(b[1])
         IN  /\ k > 0 /\ Len(b) >= k
             /\ k >= 2 => Utf8Second(b[1], b[2])
             /\ \A j \in 3..k : b[j] >= 128 /\ b[j] <= 191
             /\ Utf8Valid(SubSeq(b, k + 1, Len(b)))

\* The code points of a valid byte run.
RECURSIVE Utf8Decode(_)
Utf8Decode(b) ==
    IF b = <<>> THEN <<>>
    ELSE LET k == Utf8Len(b[1])
             cp == CASE k = 1 -> b[1]
                     [] k = 2 -> (b[1] - 192) * 64 + (b[2] - 128)
                     [] k = 3 -> (b[1] - 224) * 4096 + (b[2] - 128) * 64 + (b[3] - 128)
                     [] OTHER -> (b[1] - 240) * 262144 + (b[2] - 128) * 4096
                                 + (b[3] - 128) * 64 + (b[4] - 128)
         IN  <<cp>> \o Utf8Decode(SubSeq(b, k + 1, Len(b)))

\* Mutant of ReadString: the bytes are returned without being decoded.
ReadString_Undecoded(f, p, e) ==
    LET rn == ReadUint(f, p, e)
        rb == ReadExact(f, rn.pos, rn.val)
    IN  IF ~rn.ok THEN [rn EXCEPT !.val = <<>>]
        ELSE IF rn.val = 0 THEN [rn EXCEPT !.val = <<>>]
        ELSE rb

\* _read_string: the length prefix, then that many bytes, decoded.
ReadString(f, p, e) ==
    LET rn == ReadUint(f, p, e)
        rb == ReadExact(f, rn.pos, rn.val)
    IN  IF ~rn.ok THEN [rn EXCEPT !.val = <<>>]
        ELSE IF rn.val = 0 THEN [rn EXCEPT !.val = <<>>]
        ELSE IF ~rb.ok THEN rb
        ELSE IF ~Utf8Valid(rb.val)
             THEN [ok |-> FALSE, val |-> <<>>, pos |-> rb.pos, err |-> "UnicodeDecodeError"]
        ELSE [rb EXCEPT !.val = Utf8Decode(rb.val)]

\* _read_torch_block(f, torch.float64, count): count floats, each the 8 bytes
\* as they lie in the file (torch.frombuffer reads in native order).
ReadTorchBlock(f, p, count) ==
    IF count = 0 THEN [ok |-> TRUE, val |-> <<>>, pos |-> p, err |-> ""]
    ELSE LET r == ReadExact(f, p, count * 8)
         IN  [r EXCEPT !.val = IF r.ok
                                THEN [j \in 1..count |-> SubSeq(r.val, 8 * (j - 1) + 1, 8 * j)]
                                ELSE <<>>]

\* One entry of the read log.
Entry(kind, g, k, p, r) ==
    [kind |-> kind, g |-> g, k |-> k, at |-> p, to |-> r.pos, ok |-> r.ok]

(* ------------------------------ strings ------------------------------- *)

\* str.split("_")
RECURSIVE Split(_)
Split(s) ==
    IF \A k \in 1..Len(s) : s[k] # Underscore THEN <<s>>
    ELSE LET k == CHOOSE j \in 1..Len(s) :
                     s[j] = Underscore /\ \A q \in 1..(j - 1) : s[q] # Underscore
         IN  <<SubSeq(s, 1, k - 1)>> \o Split(SubSeq(s, k + 1, Len(s)))

\* Mutant of NegIndex: the index counts from the front.
NegIndex_FromFront(parts, j) == parts[j]

\* parts[-j]: defined when the list has at least j elements (IndexError else).
HasNeg(parts, j) == Len(parts) >= j
NegIndex(parts, j) == parts[Len(parts) - j + 1]

(* ------------------------------ inputs -------------------------------- *)
(* The containers the decoder is run on, written in the layout the BGF     *)
(* writer produces: version, graph count, the headers of all graphs, then  *)
(* for every graph its node-feature block and its edges, each edge         *)
(* followed by its feature row.                                            *)

\* "H_0_1", "G1_3_7_2", "P_9", "": 3, 4, 2 and 1 underscore-delimited tokens.
NameOf(idx) ==
    CASE idx = 1 -> <<72, 95, 48, 95, 49>>
      [] idx = 2 -> <<71, 49, 95, 51, 95, 55, 95, 50>>
      [] idx = 3 -> <<80, 95, 57>>
      [] OTHER   -> <<>>

NameChoices == 1..4

\* Feature names "n1", "n2", ... and "e1", "e2", ...
FeatureName(tag, j) == <<tag, 48 + j>>

\* The graph type tag of the g-th graph: -1, 0, 1, ...
TypeOf(g) == g - 2

\* Feature values, as bit patterns: distinct for distinct positions.
NodeValue(g, r, c) == <<1, g, r, c, 0, 0, 0, 64>>
EdgeValue(g, k, c) == <<2, g, k, c, 0, 0, 0, 64>>

\* Edge k of a graph description: in range ((n-1, n-1) first), except the one
\* edge the description marks as having u (bad = 2k-1) or v (bad = 2k) equal
\* to the node count. A graph without nodes has no edge in range.
EdgeOf(gd, k) ==
    IF gd.bad = 2 * k - 1 THEN <<gd.n, 0>>
    ELSE IF gd.bad = 2 * k THEN <<0, gd.n>>
    ELSE IF gd.n = 0 THEN <<0, 0>>
    ELSE <<(gd.n - k) % gd.n, gd.n - 1>>

GraphWeight(gd) ==
    1 + gd.n + gd.nf + gd.m + gd.ef + (gd.name - 1) + (IF gd.bad = 0 THEN 0 ELSE 1)

\* The graph descriptions of weight at most w, field by field, each field
\* ranging over what the fields before it leave of w.
GraphsUpTo(w) ==
    UNION { UNION { UNION { UNION { UNION {
        { [name |-> nm, n |-> n, nf |-> nf, m |-> m, ef |-> ef, bad |-> b] :
            b \in IF nm + n + nf + m + ef < w THEN 0..(2 * m) ELSE {0} }
        : ef \in 0..(w - nm - n - nf - m) }
        : m \in 0..(w - nm - n - nf) }
        : nf \in 0..(w - nm - n) }
        : n \in 0..(w - nm) }
        : nm \in { c \in NameChoices : c <= w } }

\* The sequences of graphs of total weight at most w.
RECURSIVE GraphSeqsUpTo(_)
GraphSeqsUpTo(w) ==
    {<<>>} \cup UNION { { <<gd>> \o rest : rest \in GraphSeqsUpTo(w - GraphWeight(gd)) } :
                        gd \in GraphsUpTo(w) }

AllGraphSeqs == GraphSeqsUpTo(MaxWeight)

RECURSIVE SeqWeight(_)
SeqWeight(gs) == IF gs = <<>> THEN 0 ELSE GraphWeight(Head(gs)) + SeqWeight(Tail(gs))

RECURSIVE Concat(_)
Concat(ss) == IF ss = <<>> THEN <<>> ELSE Head(ss) \o Concat(Tail(ss))

EncString(s, e) == Pack(Len(s), 4, e) \o s

EncF64(v, e) == IF e = "<" THEN v ELSE Reverse(v)

\* named: whether the features carry names ("n1", "e1", ...) or empty ones.
EncGraphHeader(gd, g, e, w, named) ==
    EncString(NameOf(gd.name), e) \o Pack(TypeOf(g), 4, e)
    \o Pack(gd.n, w, e) \o Pack(gd.nf, 4, e)
    \o Concat([j \in 1..gd.nf |-> EncString(IF named THEN FeatureName(110, j) ELSE <<>>, e)])
    \o Pack(gd.m, w, e) \o Pack(gd.ef, 4, e)
    \o Concat([j \in 1..gd.ef |-> EncString(IF named THEN FeatureName(101, j) ELSE <<>>, e)])

EncGraphPayload(gd, g, e, w) ==
    (IF gd.nf > 0
     THEN Concat([j \in 1..(gd.n * gd.nf) |->
                    EncF64(NodeValue(g, (j - 1) \div gd.nf, (j - 1) % gd.nf), e)])
     ELSE <<>>)
    \o Concat([k \in 1..gd.m |->
                 Pack(EdgeOf(gd, k)[1], w, e) \o Pack(EdgeOf(gd, k)[2], w, e)
                 \o Concat([c \in 1..gd.ef |-> EncF64(EdgeValue(g, k, c - 1), e)])])

EncContainer(version, declared, gs, e, w, named) ==
    Pack(version, 4, e) \o Pack(declared, 4, e)
    \o Concat([g \in 1..Len(gs) |-> EncGraphHeader(gs[g], g, e, w, named)])
    \o Concat([g \in 1..Len(gs) |-> EncGraphPayload(gs[g], g, e, w)])

\* The reader's configuration and the writer's choices besides the graphs,
\* for a container of k graphs. cut: whether the file has lost its last
\* byte. declared: what the graph-count field holds: -2 stands for k itself;
\* a container without graphs may also declare a value at or around the
\* bounds of the reader's check. written: the width of the size fields in
\* the file, the reader's size_t_bytes or, for a reader of 4-byte sizes, 8.
\* named: whether the feature names are "n1", "e1", ... or empty.
Options(k) ==
    UNION { [version : {1, 2}, endian : {"<", ">"}, size_t_bytes : {w}, keep : BOOLEAN,
             cut : {0, 1},
             declared : IF k = 0 THEN {-2, -1, MaxGraphNumber, MaxGraphNumber + 1, 1}
                        ELSE {-2},
             written : {w, 8}, named : BOOLEAN] : w \in {8, 4} }

OptionsWeight(o) ==
    2 * (o.version - 1) + (IF o.endian = "<" THEN 0 ELSE 1)
    + (IF o.size_t_bytes = 8 THEN 0 ELSE 1) + (IF o.keep THEN 0 ELSE 2)
    + o.cut + (IF o.declared = -2 THEN 0 ELSE 1)
    + (IF o.written = o.size_t_bytes THEN 0 ELSE 1) + (IF o.named THEN 0 ELSE 1)

\* The inputs of one run: a container and its options, within the bound.
Inputs ==
    UNION { { <<gs, o>> : o \in { c \in Options(Len(gs)) :
                                     OptionsWeight(c) <= MaxWeight - SeqWeight(gs) } } :
            gs \in AllGraphSeqs }

DeclaredOf(inp) == IF inp[2].declared = -2 THEN Len(inp[1]) ELSE inp[2].declared

FileOf(inp) ==
    LET o == inp[2]
        full == EncContainer(o.version, DeclaredOf(inp), inp[1], o.endian, o.written, o.named)
    IN  SubSeq(full, 1, Len(full) - o.cut)

(* ------------------------------- state -------------------------------- *)

VARIABLES
    file,                          \* the bytes of the file at `path`
    endian,                        \* parameter endian: "<" or ">"
    size_t_bytes,                  \* parameter size_t_bytes: 4 or 8
    keep_feature_names,            \* parameter keep_feature_names
    pos,                           \* bytes of f consumed so far
    pc,                            \* the statement the loader stands at
    err,                           \* the exception that ended the call, or ""
    compatibility_format_version,  \* locals of the loader, under their names
    graph_number,
    headers,
    name, gtype, n, nf, node_feature_names, m, ef, edge_feature_names,
    hi,                            \* 1-based position of `for h in headers`
    i,                             \* _i of the edge loop
    u, v,
    x, edge_index, edge_attr,
    data_list,
    result,                        \* the value returned to the caller
    reads,                         \* history: the reads issued, in order
    nextBuf,                       \* history: number of tensor buffers allocated
    container                      \* history: what the writer put in the file

\* The state around BGFInMemoryDataset(root, path, ...): the files the
\* constructor looks at, and the constructor calls under way.
VARIABLES
    source_exists,                 \* os.path.isfile(self._bgf_path)
    raw_exists,                    \* <root>/raw/<basename of path> exists
    raw_dir,                       \* <root>/raw exists
    processed_dir,                 \* <root>/processed exists
    cache,                         \* the file <root>/processed/data.pt; history: the
                                   \* `path` of the call that wrote it
    calls,                         \* per constructor call: where it stands, its locals
    decoder,                       \* the call whose process() runs the loader, or 0
    pre_filter,                    \* parameter pre_filter of the constructor
    pre_transform                  \* parameter pre_transform of the constructor

params == <<file, endian, size_t_bytes, keep_feature_names, pre_filter, pre_transform>>

pass1Locals == <<name, gtype, n, nf, node_feature_names, m, ef, edge_feature_names>>

pass2Locals == <<hi, i, u, v, x, edge_index, edge_attr, data_list, nextBuf>>

\* What lies outside the loader's frame and its steps leave alone.
outer == <<container, source_exists, raw_exists, raw_dir, processed_dir, cache, calls,
           decoder>>

vars == <<params, outer, pos, pc, err, compatibility_format_version, graph_number, headers,
          pass1Locals, pass2Locals, result, reads>>

\* A local that no statement has assigned yet, Python's None, and a tensor.
Unbound == [kind |-> "unbound"]
None == [kind |-> "none"]
Tensor(buf, shape, data) == [kind |-> "tensor", buf |-> buf, shape |-> shape, data |-> data]

\* A cell of torch.empty(...) that no statement has written yet.
Uninit == <<>>

\* The constructor calls of the model.
Callers == {1, 2}

\* A call that has not started.
IdleCall == [pc |-> "idle", err |-> "", data_list |-> Unbound, collated |-> Unbound,
             written |-> 0, data_slices |-> Unbound, steps |-> <<>>, cached |-> FALSE,
             after |-> {}, ended_before |-> {}, access |-> Unbound, loaded_path |-> "",
             decoded |-> Unbound, hooks |-> <<>>]

\* No file besides the source, no constructor call.
NoDataset ==
    /\ source_exists = TRUE
    /\ raw_exists = FALSE
    /\ raw_dir = FALSE
    /\ processed_dir = FALSE
    /\ cache = [exists |-> FALSE, cells |-> <<>>, path |-> ""]
    /\ calls = [c \in Callers |-> IdleCall]
    /\ decoder = 0

\* A direct call of the loader on one of the inputs.
Init ==
    \E inp \in Inputs :
        /\ NoDataset
        /\ file = FileOf(inp)
        /\ endian = inp[2].endian
        /\ size_t_bytes = inp[2].size_t_bytes
        /\ keep_feature_names = inp[2].keep
        /\ pre_filter = "none"
        /\ pre_transform = "none"
        /\ container = [graphs |-> inp[1], written |-> inp[2].written]
        /\ pos = 0
        /\ pc = "start"
        /\ err = ""
        /\ compatibility_format_version = 0
        /\ graph_number = 0
        /\ headers = <<>>
        /\ name = <<>> /\ gtype = 0 /\ n = 0 /\ nf = 0 /\ node_feature_names = <<>>
        /\ m = 0 /\ ef = 0 /\ edge_feature_names = <<>>
        /\ hi = 0 /\ i = 0 /\ u = 0 /\ v = 0
        /\ x = Unbound
        /\ edge_index = Unbound
        /\ edge_attr = Unbound
        /\ data_list = <<>>
        /\ result = Unbound
        /\ reads = <<>>
        /\ nextBuf = 0

(* ------------------------------ the loader ---------------------------- *)

\* Mutant of Raise: the failure is swallowed and the loader returns.
Raise_Swallowed(e) == pc' = "done" /\ err' = e

\* An exception leaves the function: the `with` block closes f, nothing is
\* returned.
Raise(e) == pc' = "raised" /\ err' = e

\* One read statement `target = reader(f, ...)` at `at`, going on at `to`:
\* the read is logged, the position moves, and a failed read raises.
ReadStep(at, to, r, kind, g, k) ==
    /\ pc = at
    /\ reads' = Append(reads, Entry(kind, g, k, pos, r))
    /\ pos' = r.pos
    /\ IF r.ok THEN pc' = to /\ err' = err ELSE Raise(r.err)

\* exporter.py:93
ReadFormatVersion ==
    LET r == ReadInt(file, pos, endian)
    IN  /\ ReadStep("start", "graph_number", r, "format_version", 0, 0)
        /\ compatibility_format_version' = IF r.ok THEN r.val ELSE compatibility_format_version
        /\ UNCHANGED <<params, outer, graph_number, headers, pass1Locals, pass2Locals, result>>

\* Mutant of GraphCountRejected: only the upper bound is checked.
GraphCountRejected_UpperOnly(gn) == gn > MaxGraphNumber

\* Mutant of GraphCountRejected: the upper bound itself is rejected.
GraphCountRejected_Strict(gn) == gn < 0 \/ gn >= MaxGraphNumber

\* exporter.py:95
GraphCountRejected(gn) == gn < 0 \/ gn > MaxGraphNumber

\* exporter.py:94-96
ReadGraphNumber ==
    LET r == ReadInt(file, pos, endian)
    IN  /\ pc = "graph_number"
        /\ reads' = Append(reads, Entry("graph_count", 0, 0, pos, r))
        /\ pos' = r.pos
        /\ graph_number' = IF r.ok THEN r.val ELSE graph_number
        /\ IF ~r.ok THEN Raise(r.err)
           ELSE IF GraphCountRejected(r.val) THEN Raise("ValueError: graph count")
           ELSE pc' = "pass1" /\ err' = err
        /\ UNCHANGED <<params, outer, compatibility_format_version, headers, pass1Locals,
                       pass2Locals, result>>

\* The 1-based number of the graph whose header pass 1 is reading.
CurrentGraph == Len(headers) + 1

\* Mutant of Pass1Exhausted: the loop runs over range(graph_number - 1).
Pass1Exhausted_OffByOne == Len(headers) >= graph_number - 1

\* exporter.py:99  `for _ in range(graph_number)` has no iteration left.
Pass1Exhausted == Len(headers) >= graph_number

\* exporter.py:99-100
ReadName ==
    LET r == ReadString(file, pos, endian)
    IN  /\ ~Pass1Exhausted
        /\ ReadStep("pass1", "gtype", r, "name", CurrentGraph, 0)
        /\ name' = IF r.ok THEN r.val ELSE name
        /\ UNCHANGED <<params, outer, compatibility_format_version, graph_number, headers,
                       gtype, n, nf, node_feature_names, m, ef, edge_feature_names,
                       pass2Locals, result>>

\* exporter.py:101
ReadType ==
    LET r == ReadInt(file, pos, endian)
    IN  /\ ReadStep("gtype", "n", r, "type", CurrentGraph, 0)
        /\ gtype' = IF r.ok THEN r.val ELSE gtype
        /\ UNCHANGED <<params, outer, compatibility_format_version, graph_number, headers,
                       name, n, nf, node_feature_names, m, ef, edge_feature_names,
                       pass2Locals, result>>

\* exporter.py:103
ReadNodeCount ==
    LET r == ReadSizeT(file, pos, endian, size_t_bytes)
    IN  /\ ReadStep("n", "nf", r, "node_count", CurrentGraph, 0)
        /\ n' = IF r.ok THEN r.val ELSE n
        /\ UNCHANGED <<params, outer, compatibility_format_version, graph_number, headers,
                       name, gtype, nf, node_feature_names, m, ef, edge_feature_names,
                       pass2Locals, result>>

\* exporter.py:104; the list of line 105 starts empty.
ReadNodeFeatureCount ==
    LET r == ReadUint(file, pos, endian)
    IN  /\ ReadStep("nf", "node_feature_names", r, "node_feature_count", CurrentGraph, 0)
        /\ nf' = IF r.ok THEN r.val ELSE nf
        /\ node_feature_names' = <<>>
        /\ UNCHANGED <<params, outer, compatibility_format_version, graph_number, headers,
                       name, gtype, n, m, ef, edge_feature_names, pass2Locals, result>>

\* exporter.py:105: one _read_string of the list comprehension.
ReadNodeFeatureName ==
    LET r == ReadString(file, pos, endian)
    IN  /\ Len(node_feature_names) < nf
        /\ ReadStep("node_feature_names", "node_feature_names", r, "node_feature_name",
                    CurrentGraph, Len(node_feature_names) + 1)
        /\ node_feature_names' = IF r.ok THEN Append(node_feature_names, r.val)
                                 ELSE node_feature_names
        /\ UNCHANGED <<params, outer, compatibility_format_version, graph_number, headers,
                       name, gtype, n, nf, m, ef, edge_feature_names, pass2Locals, result>>

\* exporter.py:107, once range(nf) is exhausted.
ReadEdgeCount ==
    LET r == ReadSizeT(file, pos, endian, size_t_bytes)
    IN  /\ Len(node_feature_names) >= nf
        /\ ReadStep("node_feature_names", "ef", r, "edge_count", CurrentGraph, 0)
        /\ m' = IF r.ok THEN r.val ELSE m
        /\ UNCHANGED <<params, outer, compatibility_format_version, graph_number, headers,
                       name, gtype, n, nf, node_feature_names, ef, edge_feature_names,
                       pass2Locals, result>>

\* exporter.py:108; the list of line 109 starts empty.
ReadEdgeFeatureCount ==
    LET r == ReadUint(file, pos, endian)
    IN  /\ ReadStep("ef", "edge_feature_names", r, "edge_feature_count", CurrentGraph, 0)
        /\ ef' = IF r.ok THEN r.val ELSE ef
        /\ edge_feature_names' = <<>>
        /\ UNCHANGED <<params, outer, compatibility_format_version, graph_number, headers,
                       name, gtype, n, nf, node_feature_names, m, pass2Locals, result>>

\* exporter.py:109: one _read_string of the list comprehension.
ReadEdgeFeatureName ==
    LET r == ReadString(file, pos, endian)
    IN  /\ Len(edge_feature_names) < ef
        /\ ReadStep("edge_feature_names", "edge_feature_names", r, "edge_feature_name",
                    CurrentGraph, Len(edge_feature_names) + 1)
        /\ edge_feature_names' = IF r.ok THEN Append(edge_feature_names, r.val)
                                 ELSE edge_feature_names
        /\ UNCHANGED <<params, outer, compatibility_format_version, graph_number, headers,
                       name, gtype, n, nf, node_feature_names, m, ef, pass2Locals, result>>

\* Mutant of MakeHeader: the edge feature names stored under both lists.
MakeHeader_SameNames ==
    [name |-> name, graph_type |-> gtype,
     node_number |-> n, node_features |-> nf, node_feature_names |-> edge_feature_names,
     edge_number |-> m, edge_features |-> ef, edge_feature_names |-> edge_feature_names]

\* exporter.py:111-120
MakeHeader ==
    [name |-> name, graph_type |-> gtype,
     node_number |-> n, node_features |-> nf, node_feature_names |-> node_feature_names,
     edge_number |-> m, edge_features |-> ef, edge_feature_names |-> edge_feature_names]

\* exporter.py:111-120, once range(ef) is exhausted: the header is appended
\* and the pass-1 loop goes round.
AppendHeader ==
    /\ pc = "edge_feature_names"
    /\ Len(edge_feature_names) >= ef
    /\ headers' = Append(headers, MakeHeader)
    /\ pc' = "pass1"
    /\ UNCHANGED <<params, outer, pos, err, compatibility_format_version, graph_number,
                   pass1Locals, pass2Locals, result, reads>>

\* exporter.py:99, 123-124: range(graph_number) is exhausted; pass 2 starts
\* with an empty data_list at the first header.
Pass1Done ==
    /\ pc = "pass1"
    /\ Pass1Exhausted
    /\ pc' = "pass2"
    /\ data_list' = <<>>
    /\ hi' = 1
    /\ UNCHANGED <<params, outer, pos, err, compatibility_format_version, graph_number,
                   headers, pass1Locals, i, u, v, x, edge_index, edge_attr, nextBuf,
                   result, reads>>

\* The header `h` of the pass-2 loop.
CurrentHeader == headers[hi]

\* Mutant of Reshape: the flat block is laid out column by column.
Reshape_ColumnMajor(flat, rows, cols) ==
    [r \in 1..rows |-> [c \in 1..cols |-> flat[(c - 1) * rows + r]]]

\* exporter.py:128  nf_arr.reshape((h.node_number, h.node_features)): row-major.
Reshape(flat, rows, cols) ==
    [r \in 1..rows |-> [c \in 1..cols |-> flat[(r - 1) * cols + c]]]

\* exporter.py:126
HasNodeFeatures(h) == h.node_features > 0

\* exporter.py:124-130: the node feature matrix of the next header.
Pass2NodeFeatures ==
    /\ pc = "pass2"
    /\ hi <= Len(headers)
    /\ LET h == CurrentHeader
           r == ReadTorchBlock(file, pos, h.node_number * h.node_features)
       IN  IF HasNodeFeatures(h)
           THEN /\ reads' = Append(reads, Entry("node_features", hi, 0, pos, r))
                /\ pos' = r.pos
                /\ IF r.ok
                   THEN /\ x' = Tensor(nextBuf + 1, <<h.node_number, h.node_features>>,
                                       Reshape(r.val, h.node_number, h.node_features))
                        /\ nextBuf' = nextBuf + 1
                        /\ pc' = "edges"
                        /\ err' = err
                   ELSE /\ Raise(r.err)
                        /\ UNCHANGED <<x, nextBuf>>
           ELSE /\ x' = None
                /\ pc' = "edges"
                /\ UNCHANGED <<reads, pos, nextBuf, err>>
    /\ i' = 0
    /\ UNCHANGED <<params, outer, compatibility_format_version, graph_number, headers,
                   pass1Locals, hi, u, v, edge_index, edge_attr, data_list, result>>

\* exporter.py:133-134
ReadEdgeU ==
    LET r == ReadSizeT(file, pos, endian, size_t_bytes)
    IN  /\ pc = "edges"
        /\ i < CurrentHeader.edge_number
        /\ ReadStep("edges", "edge_v", r, "edge_u", hi, i)
        /\ u' = IF r.ok THEN r.val ELSE u
        /\ UNCHANGED <<params, outer, compatibility_format_version, graph_number, headers,
                       pass1Locals, hi, i, v, x, edge_index, edge_attr, data_list,
                       nextBuf, result>>

\* exporter.py:135
ReadEdgeV ==
    LET r == ReadSizeT(file, pos, endian, size_t_bytes)
    IN  /\ ReadStep("edge_v", "edge_store", r, "edge_v", hi, i)
        /\ v' = IF r.ok THEN r.val ELSE v
        /\ UNCHANGED <<params, outer, compatibility_format_version, graph_number, headers,
                       pass1Locals, hi, i, u, x, edge_index, edge_attr, data_list,
                       nextBuf, result>>

\* Mutant of InvalidEdge: an endpoint equal to the node count passes.
InvalidEdge_Above(eu, ev, node_number) == eu > node_number \/ ev > node_number

\* exporter.py:136
InvalidEdge(eu, ev, node_number) == eu >= node_number \/ ev >= node_number

\* exporter.py:145
HasEdgeFeatures(h) == h.edge_features > 0 /\ h.edge_number > 0

\* exporter.py:140, 148  torch.empty(shape): a new buffer, nothing written.
Empty(buf, shape, cells) == Tensor(buf, shape, [k \in 1..cells |-> Uninit])

\* exporter.py:141-142  edge_index[0, _i] = u; edge_index[1, _i] = v
SetColumn(t, k, eu, ev) == [t EXCEPT !.data[k + 1] = <<eu, ev>>]

\* Mutant of SetRow: the rows are filled from the last one.
SetRow_FromEnd(t, k, row) == [t EXCEPT !.data[Len(t.data) - k] = row]

\* exporter.py:150  edge_attr[_i, :] = ef_arr
SetRow(t, k, row) == [t EXCEPT !.data[k + 1] = row]

\* exporter.py:136-145, 152-153: the check of the pair read, its store into
\* edge_index (allocated at the first edge), and the else branch of the
\* edge-feature test.
StoreEdge ==
    /\ pc = "edge_store"
    /\ LET h == CurrentHeader
           fresh == Empty(nextBuf + 1, <<2, h.edge_number>>, h.edge_number)
       IN  IF InvalidEdge(u, v, h.node_number)
           THEN /\ Raise("ValueError: edge index")
                /\ UNCHANGED <<i, edge_index, edge_attr, nextBuf>>
           ELSE /\ edge_index' = SetColumn(IF i = 0 THEN fresh ELSE edge_index, i, u, v)
                /\ nextBuf' = IF i = 0 THEN nextBuf + 1 ELSE nextBuf
                /\ err' = err
                /\ IF HasEdgeFeatures(h)
                   THEN pc' = "edge_features" /\ UNCHANGED <<i, edge_attr>>
                   ELSE pc' = "edges" /\ edge_attr' = None /\ i' = i + 1
    /\ UNCHANGED <<params, outer, pos, compatibility_format_version, graph_number, headers,
                   pass1Locals, hi, u, v, x, data_list, result, reads>>

\* exporter.py:146-150: the feature row of the edge just stored.
ReadEdgeFeatures ==
    /\ pc = "edge_features"
    /\ LET h == CurrentHeader
           r == ReadTorchBlock(file, pos, h.edge_features)
           fresh == Empty(nextBuf + 1, <<h.edge_number, h.edge_features>>, h.edge_number)
       IN  /\ reads' = Append(reads, Entry("edge_features", hi, i, pos, r))
           /\ pos' = r.pos
           /\ IF r.ok
              THEN /\ edge_attr' = SetRow(IF i = 0 THEN fresh ELSE edge_attr, i, r.val)
                   /\ nextBuf' = IF i = 0 THEN nextBuf + 1 ELSE nextBuf
                   /\ i' = i + 1
                   /\ pc' = "edges"
                   /\ err' = err
              ELSE /\ Raise(r.err)
                   /\ UNCHANGED <<edge_attr, nextBuf, i>>
    /\ UNCHANGED <<params, outer, compatibility_format_version, graph_number, headers,
                   pass1Locals, hi, u, v, x, edge_index, data_list, result>>

\* Mutant of MakeData: every record is stamped with format version 1.
MakeData_VersionOne(h, xv, ei, ea, version, keep) ==
    LET parts == Split(h.name)
    IN  [x |-> xv, edge_index |-> ei, edge_attr |-> ea,
         num_nodes |-> h.node_number,
         bgf_name |-> h.name,
         bgf_graph_type |-> h.graph_type,
         bgf_version |-> 1,
         bgf_name_parts |-> parts,
         edit_path_start |-> NegIndex(parts, 3),
         edit_path_end |-> NegIndex(parts, 2),
         edit_path_step |-> NegIndex(parts, 1),
         node_feature_names |-> IF keep THEN h.node_feature_names ELSE Unbound,
         edge_feature_names |-> IF keep THEN h.edge_feature_names ELSE Unbound]

\* exporter.py:155-171: the Data object built from the locals and a header.
MakeData(h, xv, ei, ea, version, keep) ==
    LET parts == Split(h.name)
    IN  [x |-> xv, edge_index |-> ei, edge_attr |-> ea,
         num_nodes |-> h.node_number,
         bgf_name |-> h.name,
         bgf_graph_type |-> h.graph_type,
         bgf_version |-> version,
         bgf_name_parts |-> parts,
         edit_path_start |-> NegIndex(parts, 3),
         edit_path_end |-> NegIndex(parts, 2),
         edit_path_step |-> NegIndex(parts, 1),
         node_feature_names |-> IF keep THEN h.node_feature_names ELSE Unbound,
         edge_feature_names |-> IF keep THEN h.edge_feature_names ELSE Unbound]

\* Mutant of AppendData: the record is put in front of the list.
AppendData_Front(lst, d) == <<d>> \o lst

\* exporter.py:172  data_list.append(d)
AppendData(lst, d) == Append(lst, d)

\* exporter.py:133, 155-172: the edge loop is exhausted; the record of the
\* current header is built from the locals and appended. Reading a local no
\* statement has assigned raises UnboundLocalError, parts[-3] of a shorter
\* list IndexError.
Pass2BuildData ==
    /\ pc = "edges"
    /\ i >= CurrentHeader.edge_number
    /\ LET h == CurrentHeader
       IN  IF edge_index = Unbound \/ edge_attr = Unbound
           THEN Raise("UnboundLocalError") /\ UNCHANGED <<data_list, hi>>
           ELSE IF ~HasNeg(Split(h.name), 3)
           THEN Raise("IndexError") /\ UNCHANGED <<data_list, hi>>
           ELSE /\ data_list' = AppendData(data_list,
                                           MakeData(h, x, edge_index, edge_attr,
                                                    compatibility_format_version,
                                                    keep_feature_names))
                /\ hi' = hi + 1
                /\ pc' = "pass2"
                /\ err' = err
    /\ UNCHANGED <<params, outer, pos, compatibility_format_version, graph_number, headers,
                   pass1Locals, i, u, v, x, edge_index, edge_attr, nextBuf, result, reads>>

\* exporter.py:124, 174: the header list is exhausted; data_list is returned.
ReturnDataList ==
    /\ pc = "pass2"
    /\ hi > Len(headers)
    /\ pc' = "done"
    /\ result' = data_list
    /\ UNCHANGED <<params, outer, pos, err, compatibility_format_version, graph_number,
                   headers, pass1Locals, pass2Locals, reads>>

Next ==
    \/ ReadFormatVersion
    \/ ReadGraphNumber
    \/ ReadName
    \/ ReadType
    \/ ReadNodeCount
    \/ ReadNodeFeatureCount
    \/ ReadNodeFeatureName
    \/ ReadEdgeCount
    \/ ReadEdgeFeatureCount
    \/ ReadEdgeFeatureName
    \/ AppendHeader
    \/ Pass1Done
    \/ Pass2NodeFeatures
    \/ ReadEdgeU
    \/ ReadEdgeV
    \/ StoreEdge
    \/ ReadEdgeFeatures
    \/ Pass2BuildData
    \/ ReturnDataList

Spec == Init /\ [][Next]_vars


(* ------------------- collate, separate, save and load ------------------ *)
(* What the calls of process() and __init__ into torch_geometric and torch *)
(* do with the records the loader returns: InMemoryDataset.collate,        *)
(* InMemoryDataset.get, torch.save and torch.load.                         *)

\* The attributes a Data object stores: Data(x=None, ...) stores no x, and
\* the feature names are set only under keep_feature_names.
Keys(d) ==
    {k \in DOMAIN d :
        CASE k \in {"x", "edge_index", "edge_attr"} -> d[k] # None /\ d[k] # Unbound
          [] k \in {"node_feature_names", "edge_feature_names"} -> keep_feature_names
          [] OTHER -> TRUE}

\* The attributes that hold torch tensors and Python ints; x is a NumPy
\* array (exporter.py:127-128) and collates like the strings and lists.
TensorKeys == {"edge_index", "edge_attr"}
NumberKeys == {"bgf_graph_type", "bgf_version"}

\* The size of a tensor along the dimension collate concatenates: the
\* columns of edge_index (__cat_dim__ = -1), the rows of edge_attr.
CatSize(key, t) == IF key = "edge_index" THEN t.shape[2] ELSE t.shape[1]

\* torch.cat of the tensors of one key.
Cat(key, values) ==
    LET all == Concat([j \in 1..Len(values) |-> values[j].data])
    IN  Tensor(0, IF key = "edge_index" THEN <<2, Len(all)>>
                  ELSE <<Len(all), values[1].shape[2]>>, all)

RECURSIVE SumSeq(_)
SumSeq(q) == IF q = <<>> THEN 0 ELSE Head(q) + SumSeq(Tail(q))

\* torch.cumsum with a leading 0: the slices of one key.
Offsets(sizes) == [j \in 1..(Len(sizes) + 1) |-> SumSeq(SubSeq(sizes, 1, j - 1))]

\* The sizes collate records for the values of one key: along the cat
\* dimension for tensors, one per record for everything else.
SliceSizes(key, values) ==
    [j \in 1..Len(values) |-> IF key \in TensorKeys THEN CatSize(key, values[j]) ELSE 1]

\* The collated value of one key.
CollateValue(key, values) ==
    IF key \in TensorKeys THEN Cat(key, values)
    ELSE IF key \in NumberKeys THEN Tensor(0, <<Len(values)>>, values)
    ELSE values

\* InMemoryDataset.collate(data_list): a single record is kept as it is,
\* with no slices; otherwise the keys of the first record are collated over
\* all records (KeyError when a later record lacks one, RuntimeError when
\* torch.cat meets rows of different widths), and the node counts are kept
\* as a list. An empty list has no first record.
CollateList(dl) ==
    IF Len(dl) = 0 THEN [ok |-> FALSE, err |-> "IndexError", data |-> None, slices |-> None]
    ELSE IF Len(dl) = 1 THEN [ok |-> TRUE, err |-> "", data |-> dl[1], slices |-> None]
    ELSE LET keys == Keys(dl[1])
         IN  IF \E j \in 1..Len(dl) : \E k \in keys : k \notin Keys(dl[j])
             THEN [ok |-> FALSE, err |-> "KeyError", data |-> None, slices |-> None]
             ELSE IF /\ "edge_attr" \in keys
                     /\ \E j \in 1..Len(dl) : dl[j].edge_attr.shape[2] # dl[1].edge_attr.shape[2]
             THEN [ok |-> FALSE, err |-> "RuntimeError", data |-> None, slices |-> None]
             ELSE [ok |-> TRUE, err |-> "",
                   data |-> [k \in keys |->
                               IF k = "num_nodes" THEN [j \in 1..Len(dl) |-> dl[j].num_nodes]
                               ELSE CollateValue(k, [j \in 1..Len(dl) |-> dl[j][k]])],
                   slices |-> [k \in keys \ {"num_nodes"} |->
                                 Offsets(SliceSizes(k, [j \in 1..Len(dl) |-> dl[j][k]]))]]

\* torch.narrow of a collated tensor to the range of record idx.
Narrow(key, t, from, to) ==
    LET part == SubSeq(t.data, from + 1, to)
    IN  Tensor(0, IF key = "edge_index" THEN <<2, Len(part)>>
                  ELSE IF key = "edge_attr" THEN <<Len(part), t.shape[2]>>
                  ELSE <<Len(part)>>, part)

\* len(dataset): 1 without slices, else the length of a slice minus one.
DatasetLen(ds) ==
    IF ds.slices = None THEN 1
    ELSE Len(ds.slices[CHOOSE k \in DOMAIN ds.slices : TRUE]) - 1

\* InMemoryDataset.get(idx), idx counted from 0: the only record itself
\* without slices, else the record separate() cuts out of the collated data.
Get(ds, idx) ==
    IF ds.slices = None THEN ds.data
    ELSE [k \in DOMAIN ds.data |->
            IF k = "num_nodes" THEN ds.data[k][idx + 1]
            ELSE IF k \in TensorKeys \cup NumberKeys
                 THEN Narrow(k, ds.data[k], ds.slices[k][idx + 1], ds.slices[k][idx + 2])
            ELSE ds.data[k][idx + 1]]

\* torch.save(obj, path) writes the archive of obj piece by piece: its
\* records first, its directory last. A cell that no writer has filled is a
\* hole.
Ser(obj) == << [part |-> 1, of |-> obj], [part |-> 2, of |-> obj] >>
Hole == [part |-> 0, of |-> None]

\* A file that torch.load can read: the whole archive of one object.
Loadable(cells) ==
    /\ Len(cells) = 2
    /\ cells[1].part = 1 /\ cells[2].part = 2
    /\ cells[1].of = cells[2].of

\* A write of one piece at the writer's own offset.
WriteAt(cells, off, piece) ==
    IF off < Len(cells) THEN [cells EXCEPT ![off + 1] = piece]
    ELSE cells \o [j \in 1..(off - Len(cells)) |-> Hole] \o <<piece>>

(* ----------------------------- the dataset ---------------------------- *)
(* BGFInMemoryDataset(root, path): the constructor stores its parameters,  *)
(* runs the base constructor, which calls download() unless the raw file   *)
(* is there and process() unless the processed file is there, and loads    *)
(* the processed file. Calls may run side by side in several processes.    *)
(* The loader reads only the source and writes only its own locals, so     *)
(* every step of another call commutes with its steps: a decode is run     *)
(* here without steps of other calls in between.                           *)

MaxDatasetWeight == 5

\* The loader is not running.
IdleLoader ==
    /\ pos = 0 /\ pc = "idle" /\ err = ""
    /\ compatibility_format_version = 0 /\ graph_number = 0 /\ headers = <<>>
    /\ name = <<>> /\ gtype = 0 /\ n = 0 /\ nf = 0 /\ node_feature_names = <<>>
    /\ m = 0 /\ ef = 0 /\ edge_feature_names = <<>>
    /\ hi = 0 /\ i = 0 /\ u = 0 /\ v = 0
    /\ x = Unbound /\ edge_index = Unbound /\ edge_attr = Unbound
    /\ data_list = <<>> /\ result = Unbound /\ reads = <<>> /\ nextBuf = 0

\* The frame of a loader call that stands at `at`, no local assigned yet.
LoaderFrame(at) ==
    /\ pos' = 0 /\ pc' = at /\ err' = ""
    /\ compatibility_format_version' = 0 /\ graph_number' = 0 /\ headers' = <<>>
    /\ name' = <<>> /\ gtype' = 0 /\ n' = 0 /\ nf' = 0 /\ node_feature_names' = <<>>
    /\ m' = 0 /\ ef' = 0 /\ edge_feature_names' = <<>>
    /\ hi' = 0 /\ i' = 0 /\ u' = 0 /\ v' = 0
    /\ x' = Unbound /\ edge_index' = Unbound /\ edge_attr' = Unbound
    /\ data_list' = <<>> /\ result' = Unbound /\ reads' = <<>> /\ nextBuf' = 0

loaderLocals == <<pos, pc, err, compatibility_format_version, graph_number, headers,
                  pass1Locals, pass2Locals, result, reads>>

\* The parameter `path` of the calls, and the `path` of an earlier call
\* with the same `root`.
SourcePath == "P"
OtherPath == "Q"

\* A processed file left by an earlier run, BGFInMemoryDataset(root,
\* OtherPath): the collection of one graph "H_0_1" with one node and one
\* edge.
OldCollection ==
    [data |-> MakeData([name |-> NameOf(1), graph_type |-> 0, node_number |-> 1,
                        node_features |-> 0, node_feature_names |-> <<>>,
                        edge_number |-> 1, edge_features |-> 0,
                        edge_feature_names |-> <<>>],
                       None, Tensor(0, <<2, 1>>, <<<<0, 0>>>>), None, 1, TRUE),
     slices |-> None]

\* The containers a dataset is built from: graphs named "H_0_1", written as
\* the writer writes them for a reader with the default parameters.
DatasetInputs ==
    { <<gs, [version |-> 1, endian |-> "<", size_t_bytes |-> 8, keep |-> TRUE, cut |-> 0,
             declared |-> -2, written |-> 8, named |-> TRUE]>> :
      gs \in { q \in GraphSeqsUpTo(MaxDatasetWeight) :
                 \A j \in 1..Len(q) : q[j].name = 1 } }

DatasetInit ==
    \E inp \in DatasetInputs :
        /\ file = FileOf(inp)
        /\ endian = inp[2].endian
        /\ size_t_bytes = inp[2].size_t_bytes
        /\ keep_feature_names = inp[2].keep
        /\ pre_filter = "none"
        /\ pre_transform = "none"
        /\ container = [graphs |-> inp[1], written |-> inp[2].written]
        /\ IdleLoader
        /\ source_exists \in BOOLEAN
        /\ raw_exists \in BOOLEAN
        /\ raw_dir = raw_exists
        /\ \/ processed_dir = FALSE /\ cache = [exists |-> FALSE, cells |-> <<>>, path |-> ""]
           \/ processed_dir = TRUE /\ cache = [exists |-> TRUE, cells |-> Ser(OldCollection),
                                             path |-> OtherPath]
        /\ calls = [c \in Callers |-> IdleCall]
        /\ decoder = 0

\* The call c moves to `to`, having done `step`.
Goes(c, to, step) ==
    calls' = [calls EXCEPT ![c].pc = to, ![c].steps = Append(@, step)]

\* An exception leaves the constructor of call c.
Fails(c, e, step) ==
    calls' = [calls EXCEPT ![c].pc = "failed", ![c].err = e, ![c].steps = Append(@, step)]

\* exporter.py:196-201: __init__ stores its parameters and enters the base
\* constructor. The calls are numbered in the order they start.
StartCall(c) ==
    /\ decoder = 0
    /\ calls[c].pc = "idle"
    /\ \A b \in Callers : b < c => calls[b].pc # "idle"
    /\ calls' = [calls EXCEPT ![c].pc = "download", ![c].steps = Append(@, "init"),
                              ![c].cached = cache.exists /\ Loadable(cache.cells),
                              ![c].after = {b \in Callers : calls[b].pc = "returned"},
                              ![c].ended_before =
                                  {b \in Callers : calls[b].pc \in {"returned", "failed"}}]
    /\ UNCHANGED <<params, loaderLocals, container, source_exists, raw_exists, raw_dir,
                   processed_dir, cache, decoder>>

\* exporter.py:201, 204-206, 212-214: Dataset._download(): nothing when the
\* raw file <root>/raw/<basename of path> exists; else the raw directory is
\* made and download() raises FileNotFoundError unless the source is a file.
Download(c) ==
    /\ decoder = 0
    /\ calls[c].pc = "download"
    /\ IF raw_exists
       THEN Goes(c, "process", "raw_found") /\ UNCHANGED raw_dir
       ELSE /\ raw_dir' = TRUE
            /\ IF source_exists
               THEN Goes(c, "process", "download")
               ELSE Fails(c, "FileNotFoundError", "download")
    /\ UNCHANGED <<params, loaderLocals, container, source_exists, raw_exists,
                   processed_dir, cache, decoder>>

\* Mutant of ProcessedFound: the processed file is never taken as found.
ProcessedFound_Never == FALSE

\* exporter.py:208-210: files_exist(self.processed_paths).
ProcessedFound == cache.exists

\* exporter.py:201: Dataset._process(): nothing when the processed file
\* exists; else the processed directory is made and process() is entered.
ProcessCheck(c) ==
    /\ decoder = 0
    /\ calls[c].pc = "process"
    /\ IF ProcessedFound
       THEN Goes(c, "load", "processed_found") /\ UNCHANGED processed_dir
       ELSE Goes(c, "decode", "process") /\ processed_dir' = TRUE
    /\ UNCHANGED <<params, loaderLocals, container, source_exists, raw_exists, raw_dir,
                   cache, decoder>>

\* exporter.py:217-223, 91: process() calls the loader, which opens the
\* source: FileNotFoundError when it is not there.
ProcessBegin(c) ==
    /\ decoder = 0
    /\ calls[c].pc = "decode"
    /\ IF source_exists
       THEN /\ Goes(c, "decoding", "open")
            /\ decoder' = c
            /\ LoaderFrame("start")
       ELSE /\ Fails(c, "FileNotFoundError", "open")
            /\ UNCHANGED <<decoder, loaderLocals>>
    /\ UNCHANGED <<params, container, source_exists, raw_exists, raw_dir, processed_dir,
                   cache>>

\* Mutant of ProcessDecoded: after a failed decode process() goes on with
\* the records built so far.
ProcessDecoded_KeepPartial(c) ==
    /\ decoder = c
    /\ calls[c].pc = "decoding"
    /\ pc \in {"done", "raised"}
    /\ calls' = [calls EXCEPT ![c].pc = "collate", ![c].data_list = data_list,
                              ![c].steps = Append(@, IF pc = "done" THEN "decoded"
                                                     ELSE "decode_raised")]
    /\ decoder' = 0
    /\ LoaderFrame("idle")
    /\ UNCHANGED <<params, container, source_exists, raw_exists, raw_dir, processed_dir,
                   cache>>

\* exporter.py:217: the loader has returned or raised; its frame is gone.
ProcessDecoded(c) ==
    /\ decoder = c
    /\ calls[c].pc = "decoding"
    /\ pc \in {"done", "raised"}
    /\ IF pc = "done"
       THEN calls' = [calls EXCEPT ![c].pc = "pre_filter", ![c].data_list = result,
                                   ![c].decoded = result,
                                   ![c].steps = Append(@, "decoded")]
       ELSE Fails(c, err, "decode_raised")
    /\ decoder' = 0
    /\ LoaderFrame("idle")
    /\ UNCHANGED <<params, container, source_exists, raw_exists, raw_dir, processed_dir,
                   cache>>

\* The functions a caller may pass as pre_filter: None, one that accepts the
\* records with two nodes, one that accepts none. As pre_transform: None,
\* or one that sets an attribute on the record it is given.
PreFilters == {"none", "two_nodes", "reject_all"}
PreTransforms == {"none", "mark"}

\* self.pre_filter(d)
Accepts(f, d) ==
    CASE f = "two_nodes" -> d.num_nodes = 2
      [] f = "reject_all" -> FALSE

\* self.pre_transform(d)
Transformed(t, d) ==
    [k \in DOMAIN d \cup {"pre_transformed"} |-> IF k = "pre_transformed" THEN TRUE ELSE d[k]]

\* The positions of lst the filter f accepts, in order.
AcceptedOf(f, lst) ==
    SelectSeq([j \in 1..Len(lst) |-> j], LAMBDA j : Accepts(f, lst[j]))

\* Mutant of PreFilter: the filter is called and its answer is ignored.
PreFilter_KeepAll(c) ==
    /\ decoder = 0
    /\ calls[c].pc = "pre_filter"
    /\ calls' = [calls EXCEPT ![c].pc = "pre_transform",
                              ![c].hooks = @ \o [j \in 1..Len(calls[c].data_list) |->
                                                    <<"pre_filter", calls[c].data_list[j]>>],
                              ![c].steps = Append(@, "pre_filter")]
    /\ UNCHANGED <<params, loaderLocals, container, source_exists, raw_exists, raw_dir,
                   processed_dir, cache, decoder>>

\* exporter.py:224-225  data_list = [d for d in data_list if self.pre_filter(d)]
\* unless pre_filter is None.
PreFilter(c) ==
    /\ decoder = 0
    /\ calls[c].pc = "pre_filter"
    /\ LET lst == calls[c].data_list
       IN  IF pre_filter = "none"
           THEN Goes(c, "pre_transform", "pre_filter")
           ELSE calls' = [calls EXCEPT
                    ![c].pc = "pre_transform",
                    ![c].data_list = [j \in 1..Len(AcceptedOf(pre_filter, lst)) |->
                                        lst[AcceptedOf(pre_filter, lst)[j]]],
                    ![c].hooks = @ \o [j \in 1..Len(lst) |-> <<"pre_filter", lst[j]>>],
                    ![c].steps = Append(@, "pre_filter")]
    /\ UNCHANGED <<params, loaderLocals, container, source_exists, raw_exists, raw_dir,
                   processed_dir, cache, decoder>>

\* exporter.py:226-227  data_list = [self.pre_transform(d) for d in data_list]
\* unless pre_transform is None.
PreTransform(c) ==
    /\ decoder = 0
    /\ calls[c].pc = "pre_transform"
    /\ LET lst == calls[c].data_list
       IN  IF pre_transform = "none"
           THEN Goes(c, "collate", "pre_transform")
           ELSE calls' = [calls EXCEPT
                    ![c].pc = "collate",
                    ![c].data_list = [j \in 1..Len(lst) |-> Transformed(pre_transform, lst[j])],
                    ![c].hooks = @ \o [j \in 1..Len(lst) |-> <<"pre_transform", lst[j]>>],
                    ![c].steps = Append(@, "pre_transform")]
    /\ UNCHANGED <<params, loaderLocals, container, source_exists, raw_exists, raw_dir,
                   processed_dir, cache, decoder>>

\* Mutant of Collate: the collated data is never persisted.
Collate_Unsaved(c) ==
    /\ decoder = 0
    /\ calls[c].pc = "collate"
    /\ LET r == CollateList(calls[c].data_list)
       IN  calls' = [calls EXCEPT ![c].pc = "load",
                                  ![c].collated = [data |-> r.data, slices |-> r.slices],
                                  ![c].steps = Append(@, "collate")]
    /\ UNCHANGED <<params, loaderLocals, container, source_exists, raw_exists, raw_dir,
                   processed_dir, cache, decoder>>

\* exporter.py:228  data, slices = self.collate(data_list)
Collate(c) ==
    /\ decoder = 0
    /\ calls[c].pc = "collate"
    /\ LET r == CollateList(calls[c].data_list)
       IN  IF r.ok
           THEN calls' = [calls EXCEPT ![c].pc = "makedirs",
                                       ![c].collated = [data |-> r.data, slices |-> r.slices],
                                       ![c].steps = Append(@, "collate")]
           ELSE Fails(c, r.err, "collate")
    /\ UNCHANGED <<params, loaderLocals, container, source_exists, raw_exists, raw_dir,
                   processed_dir, cache, decoder>>

\* exporter.py:229  os.makedirs(self.processed_dir, exist_ok=True)
Makedirs(c) ==
    /\ decoder = 0
    /\ calls[c].pc = "makedirs"
    /\ processed_dir' = TRUE
    /\ Goes(c, "save", "makedirs")
    /\ UNCHANGED <<params, loaderLocals, container, source_exists, raw_exists, raw_dir,
                   cache, decoder>>

\* exporter.py:230: torch.save opens the processed file itself for writing,
\* which creates it or cuts it to length 0.
SaveOpen(c) ==
    /\ decoder = 0
    /\ calls[c].pc = "save"
    /\ cache' = [exists |-> TRUE, cells |-> <<>>, path |-> SourcePath]
    /\ calls' = [calls EXCEPT ![c].pc = "writing", ![c].written = 0,
                              ![c].steps = Append(@, "save_open")]
    /\ UNCHANGED <<params, loaderLocals, container, source_exists, raw_exists, raw_dir,
                   processed_dir, decoder>>

\* exporter.py:230: torch.save writes the next piece at its offset; after the
\* last one the file is closed.
SaveWrite(c) ==
    /\ decoder = 0
    /\ calls[c].pc = "writing"
    /\ LET pieces == Ser(calls[c].collated)
           k == calls[c].written
       IN  /\ cache' = [cache EXCEPT !.cells = WriteAt(@, k, pieces[k + 1])]
           /\ calls' = [calls EXCEPT ![c].written = k + 1,
                                     ![c].pc = IF k + 1 = Len(pieces) THEN "load" ELSE "writing",
                                     ![c].steps = Append(@, "save_write")]
    /\ UNCHANGED <<params, loaderLocals, container, source_exists, raw_exists, raw_dir,
                   processed_dir, decoder>>

\* exporter.py:202  self.data, self.slices = torch.load(self.processed_paths[0])
\* and the return of the constructor: FileNotFoundError without the file, an
\* unpickling error on a file that is not a whole archive.
Load(c) ==
    /\ decoder = 0
    /\ calls[c].pc = "load"
    /\ IF ~cache.exists THEN Fails(c, "FileNotFoundError", "load")
       ELSE IF ~Loadable(cache.cells) THEN Fails(c, "RuntimeError", "load")
       ELSE calls' = [calls EXCEPT ![c].pc = "returned", ![c].data_slices = cache.cells[1].of,
                                   ![c].loaded_path = cache.path,
                                   ![c].steps = Append(@, "load")]
    /\ UNCHANGED <<params, loaderLocals, container, source_exists, raw_exists, raw_dir,
                   processed_dir, cache, decoder>>

\* plot_graph.py:77-81  load_data_by_index: the index is checked against
\* 0..len-1 before the dataset is indexed.
load_data_by_index(ds, idx) ==
    IF idx < 0 \/ idx >= DatasetLen(ds)
    THEN [idx |-> idx, ok |-> FALSE, err |-> "IndexError", value |-> None]
    ELSE [idx |-> idx, ok |-> TRUE, err |-> "", value |-> Get(ds, idx)]

\* main.py:11  ds[idx]: Dataset.__getitem__ takes the position from
\* range(len(ds))[idx], which counts an index below 0 from the end and
\* raises IndexError outside -len..len-1, and returns get() of it.
ItemAt(ds, idx) ==
    LET len == DatasetLen(ds)
    IN  IF idx >= len \/ idx < -len
        THEN [idx |-> idx, ok |-> FALSE, err |-> "IndexError", value |-> None]
        ELSE [idx |-> idx, ok |-> TRUE, err |-> "",
              value |-> Get(ds, IF idx < 0 THEN len + idx ELSE idx)]

\* main.py:10-11: the caller indexes the dataset it was returned, at an
\* index inside or just outside of it.
GetItem(c) ==
    /\ decoder = 0
    /\ calls[c].pc = "returned"
    /\ calls[c].access = Unbound
    /\ \E idx \in (-DatasetLen(calls[c].data_slices) - 1)..DatasetLen(calls[c].data_slices) :
           calls' = [calls EXCEPT ![c].access = ItemAt(calls[c].data_slices, idx)]
    /\ UNCHANGED <<params, loaderLocals, container, source_exists, raw_exists, raw_dir,
                   processed_dir, cache, decoder>>

DatasetNext ==
    \/ Next
    \/ \E c \in Callers : StartCall(c)
    \/ \E c \in Callers : Download(c)
    \/ \E c \in Callers : ProcessCheck(c)
    \/ \E c \in Callers : ProcessBegin(c)
    \/ \E c \in Callers : ProcessDecoded(c)
    \/ \E c \in Callers : PreFilter(c)
    \/ \E c \in Callers : PreTransform(c)
    \/ \E c \in Callers : Collate(c)
    \/ \E c \in Callers : Makedirs(c)
    \/ \E c \in Callers : SaveOpen(c)
    \/ \E c \in Callers : SaveWrite(c)
    \/ \E c \in Callers : Load(c)
    \/ \E c \in Callers : GetItem(c)

DatasetSpec == DatasetInit /\ [][DatasetNext]_vars

(* ---------------------- pre_filter and pre_transform ------------------ *)
(* One constructor call with every pre_filter and pre_transform, on         *)
(* containers of up to MaxHookGraphs graphs with one or two nodes and one   *)
(* edge each, all with the same number of feature columns, no processed     *)
(* file present.                                                            *)

MaxHookGraphs == 3

RECURSIVE HookGraphSeqs(_, _, _)
HookGraphSeqs(k, nfc, efc) ==
    IF k = 0 THEN {<<>>}
    ELSE HookGraphSeqs(k - 1, nfc, efc)
         \cup { Append(q, [name |-> 1, n |-> nodes, nf |-> nfc, m |-> 1, ef |-> efc, bad |-> 0]) :
                    q \in { b \in HookGraphSeqs(k - 1, nfc, efc) : Len(b) = k - 1 },
                    nodes \in {1, 2} }

HookInit ==
    \E nfc \in {0, 1} : \E efc \in {0, 1} : \E gs \in HookGraphSeqs(MaxHookGraphs, nfc, efc) :
        /\ gs # <<>>
        /\ file = FileOf(<<gs, [version |-> 1, endian |-> "<", size_t_bytes |-> 8,
                                keep |-> TRUE, cut |-> 0, declared |-> -2, written |-> 8,
                                named |-> TRUE]>>)
        /\ endian = "<"
        /\ size_t_bytes = 8
        /\ keep_feature_names = TRUE
        /\ pre_filter \in PreFilters
        /\ pre_transform \in PreTransforms
        /\ container = [graphs |-> gs, written |-> 8]
        /\ IdleLoader
        /\ source_exists = TRUE
        /\ raw_exists = FALSE
        /\ raw_dir = FALSE
        /\ processed_dir = FALSE
        /\ cache = [exists |-> FALSE, cells |-> <<>>, path |-> ""]
        /\ calls = [c \in Callers |-> IdleCall]
        /\ decoder = 0

HookNext ==
    \/ Next
    \/ StartCall(1)
    \/ Download(1)
    \/ ProcessCheck(1)
    \/ ProcessBegin(1)
    \/ ProcessDecoded(1)
    \/ PreFilter(1)
    \/ PreTransform(1)
    \/ Collate(1)
    \/ Makedirs(1)
    \/ SaveOpen(1)
    \/ SaveWrite(1)
    \/ Load(1)

HookSpec == HookInit /\ [][HookNext]_vars

(* ------------------------- strings in the file ------------------------ *)
(* The first string of a container, the name of its first graph, for       *)
(* every length prefix and every run of bytes up to a bound: ASCII, the    *)
(* two bytes of U+00E9, and a byte that occurs in no UTF-8 text.           *)

MaxStringLen == 3

StringBytes == {65, 95, 195, 169, 255}

RECURSIVE ByteRuns(_)
ByteRuns(k) ==
    IF k = 0 THEN {<<>>}
    ELSE ByteRuns(k - 1) \cup { Append(b, c) : b \in { q \in ByteRuns(k - 1) : Len(q) = k - 1 },
                                               c \in StringBytes }

StringInit ==
    \E e \in {"<", ">"} : \E len \in 0..MaxStringLen : \E body \in ByteRuns(MaxStringLen) :
        /\ NoDataset
        /\ file = Pack(1, 4, e) \o Pack(1, 4, e) \o Pack(len, 4, e) \o body
        /\ endian = e
        /\ size_t_bytes = 8
        /\ keep_feature_names = TRUE
        /\ pre_filter = "none"
        /\ pre_transform = "none"
        /\ container = [graphs |-> <<>>, written |-> 8]
        /\ pos = 0
        /\ pc = "start"
        /\ err = ""
        /\ compatibility_format_version = 0
        /\ graph_number = 0
        /\ headers = <<>>
        /\ name = <<>> /\ gtype = 0 /\ n = 0 /\ nf = 0 /\ node_feature_names = <<>>
        /\ m = 0 /\ ef = 0 /\ edge_feature_names = <<>>
        /\ hi = 0 /\ i = 0 /\ u = 0 /\ v = 0
        /\ x = Unbound
        /\ edge_index = Unbound
        /\ edge_attr = Unbound
        /\ data_list = <<>>
        /\ result = Unbound
        /\ reads = <<>>
        /\ nextBuf = 0

\* The loader up to the first string it reads.
StringNext ==
    \/ ReadFormatVersion
    \/ ReadGraphNumber
    \/ ReadName

StringSpec == StringInit /\ [][StringNext]_vars

(* ------------------------------- claims ------------------------------- *)

Pass1Kinds == {"name", "type", "node_count", "node_feature_count", "node_feature_name",
               "edge_count", "edge_feature_count", "edge_feature_name"}

Pass2Kinds == {"node_features", "edge_u", "edge_v", "edge_features"}

\* The loader stands inside pass 2 or has returned from it.
InPass2 == pc \in {"pass2", "edges", "edge_v", "edge_store", "edge_features", "done"}

Pass1Log ==
    LET sel == SelectSeq(reads, LAMBDA e : e.kind \in Pass1Kinds)
    IN  [j \in 1..Len(sel) |-> <<sel[j].kind, sel[j].g, sel[j].k>>]

\* The reads of one header in the field order of the layout.
HeaderKinds(h, g) ==
    << <<"name", g, 0>>, <<"type", g, 0>>, <<"node_count", g, 0>>,
       <<"node_feature_count", g, 0>> >>
    \o [j \in 1..h.node_features |-> <<"node_feature_name", g, j>>]
    \o << <<"edge_count", g, 0>>, <<"edge_feature_count", g, 0>> >>
    \o [j \in 1..h.edge_features |-> <<"edge_feature_name", g, j>>]

\* The bytes of a header record in the layout.
HeaderBytes(h) ==
    EncString(h.name, endian) \o Pack(h.graph_type, 4, endian)
    \o Pack(h.node_number, size_t_bytes, endian) \o Pack(h.node_features, 4, endian)
    \o Concat([j \in 1..Len(h.node_feature_names) |-> EncString(h.node_feature_names[j], endian)])
    \o Pack(h.edge_number, size_t_bytes, endian) \o Pack(h.edge_features, 4, endian)
    \o Concat([j \in 1..Len(h.edge_feature_names) |-> EncString(h.edge_feature_names[j], endian)])

\* Where the last read of the leading pair or of pass 1 ended.
Pass1End ==
    LET sel == SelectSeq(reads, LAMBDA e : e.kind \notin Pass2Kinds)
    IN  sel[Len(sel)].to

C3_GraphCountBounds ==
    (\E j \in 1..Len(reads) : reads[j].kind = "graph_count" /\ reads[j].ok) =>
        IF 0 <= graph_number /\ graph_number <= 10000000
        THEN err # "ValueError: graph count" /\ (pc = "raised" => Len(reads) > 2)
        ELSE pc = "raised" /\ err = "ValueError: graph count" /\ Len(reads) = 2

\* C3 witness: the upper boundary 10_000_000 has been accepted and pass 1
\* has started.
C3_Witness ==
    /\ graph_number = 10000000
    /\ pc = "raised" /\ err = "EOFError"
    /\ Len(reads) = 3 /\ reads[3].kind = "name"

\* C4: a call that returns returns one record per header in header order:
\* the list has graph_number entries and entry j carries the name, type and
\* node count of header j.
C4_OneRecordPerHeader ==
    pc = "done" =>
        /\ Len(result) = graph_number
        /\ Len(result) = Len(headers)
        /\ \A j \in 1..Len(result) :
               /\ result[j].bgf_name = headers[j].name
               /\ result[j].bgf_graph_type = headers[j].graph_type
               /\ result[j].num_nodes = headers[j].node_number

\* C4 witness: a call has returned two records of two different headers.
C4_Witness ==
    /\ pc = "done"
    /\ Len(result) = 2
    /\ headers[1].name # headers[2].name
    /\ headers[1].node_number # headers[2].node_number

\* C5: the check of an edge read in pass 2: an endpoint u or v at or above
\* the graph's node count ends the call with the edge-index ValueError (any
\* edge of a graph without nodes does), and a pair below it, node_count - 1
\* included, is accepted and stored.
C5_EdgeIndexCheck ==
    [][pc = "edge_store" =>
          IF u >= headers[hi].node_number \/ v >= headers[hi].node_number
          THEN pc' = "raised" /\ err' = "ValueError: edge index"
          ELSE /\ pc' \in {"edges", "edge_features"}
               /\ edge_index'.data[i + 1] = <<u, v>>]_vars

\* C5 witness: an edge whose u is node_count - 1 and whose v is node_count
\* has been rejected.
C5_Witness ==
    /\ pc = "raised" /\ err = "ValueError: edge index"
    /\ u = headers[hi].node_number - 1
    /\ v = headers[hi].node_number

\* C6: every record of a graph whose header has edge_number = 0 has an
\* edge_index of shape [2, 0] and no edge-feature matrix, whatever its
\* edge_features and its position: as the first graph (the call does not
\* end in UnboundLocalError) or after a graph with edges and edge features.
C6_ZeroEdgesEmptyIndex ==
    /\ err # "UnboundLocalError"
    /\ \A j \in 1..Len(data_list) :
           headers[j].edge_number = 0 =>
               /\ data_list[j].edge_index.kind = "tensor"
               /\ data_list[j].edge_index.shape = <<2, 0>>
               /\ data_list[j].edge_attr = None

\* C7: every record returned by a successful decode has an edge_index with
\* exactly its own header's edge_number columns, and every endpoint stored in
\* it is below the record's own node count.
C7_EdgeIndexWithinOwnGraph ==
    pc = "done" =>
        \A j \in 1..Len(result) :
            LET ei == result[j].edge_index
            IN  /\ ei.shape = <<2, headers[j].edge_number>>
                /\ Len(ei.data) = headers[j].edge_number
                /\ \A k \in 1..Len(ei.data) :
                       /\ ei.data[k][1] < result[j].num_nodes
                       /\ ei.data[k][2] < result[j].num_nodes

IsPrefix(a, b) == Len(a) <= Len(b) /\ a = SubSeq(b, 1, Len(a))

\* The pass-2 reads of graph g in the log, as <<kind, edge>>.
Pass2LogOf(g) ==
    LET sel == SelectSeq(reads, LAMBDA e : e.kind \in Pass2Kinds /\ e.g = g)
    IN  [j \in 1..Len(sel) |-> <<sel[j].kind, sel[j].k>>]

\* The pass-2 reads of a graph in the wire order of the layout.
WireOrder(h) ==
    (IF h.node_features > 0 THEN << <<"node_features", 0>> >> ELSE <<>>)
    \o Concat([k \in 1..h.edge_number |->
                 << <<"edge_u", k - 1>>, <<"edge_v", k - 1>> >>
                 \o (IF h.edge_features > 0 THEN << <<"edge_features", k - 1>> >> ELSE <<>>)])

\* The position in the log of the read of that kind of edge k of graph g.
LogIndex(kind, g, k) ==
    CHOOSE j \in 1..Len(reads) : reads[j].kind = kind /\ reads[j].g = g /\ reads[j].k = k

\* The floats lying in the file between two offsets.
FloatsAt(from, to) ==
    [c \in 1..((to - from) \div 8) |-> SubSeq(file, from + 8 * (c - 1) + 1, from + 8 * c)]

RowMajorBlock(xv, h, e) ==
    /\ xv.kind = "tensor"
    /\ xv.shape = <<h.node_number, h.node_features>>
    /\ e.ok /\ e.to - e.at = 8 * h.node_number * h.node_features
    /\ Len(xv.data) = h.node_number
    /\ \A r \in 0..(h.node_number - 1) : \A c \in 0..(h.node_features - 1) :
           xv.data[r + 1][c + 1] = FloatsAt(e.at, e.to)[r * h.node_features + c + 1]

\* C9: a record's node feature matrix is absent exactly when its header has
\* node_features = 0 (and then no block is read); otherwise
\* node_number * node_features floats are read and laid out row-major in
\* shape [node_number, node_features], a graph without nodes included.
C9_NodeFeaturesRowMajor ==
    \A g \in 1..Len(data_list) :
        IF headers[g].node_features = 0
        THEN /\ data_list[g].x = None
             /\ \A j \in 1..Len(reads) : ~(reads[j].kind = "node_features" /\ reads[j].g = g)
        ELSE RowMajorBlock(data_list[g].x, headers[g], reads[LogIndex("node_features", g, 0)])

\* C9 witness: a record holds a 2 x 2 node feature matrix.
C9_Witness ==
    \E g \in 1..Len(data_list) : data_list[g].x.kind = "tensor" /\ data_list[g].x.shape = <<2, 2>>

\* parts joined with "_" between them.
RECURSIVE JoinUnderscore(_)
JoinUnderscore(parts) ==
    IF Len(parts) = 1 THEN parts[1]
    ELSE parts[1] \o <<95>> \o JoinUnderscore(Tail(parts))

\* C10: for every record (its name has at least 3 underscore-delimited
\* tokens) bgf_name_parts is the name split on "_" (tokens free of "_" that
\* joined with "_" give the name), and edit_path_start, edit_path_end,
\* edit_path_step are the 3rd-, 2nd- and 1st-from-last tokens.
C10_EditPathFromName ==
    \A g \in 1..Len(data_list) :
        LET d == data_list[g]
            parts == d.bgf_name_parts
            len == Len(parts)
        IN  /\ len >= 3
            /\ JoinUnderscore(parts) = d.bgf_name
            /\ \A q \in 1..len : \A c \in 1..Len(parts[q]) : parts[q][c] # 95
            /\ d.edit_path_start = parts[len - 2]
            /\ d.edit_path_end = parts[len - 1]
            /\ d.edit_path_step = parts[len]

\* C10 witness: the record of "G1_3_7_2" has start, end, step "3", "7", "2".
C10_Witness ==
    \E g \in 1..Len(data_list) :
        /\ data_list[g].bgf_name = <<71, 49, 95, 51, 95, 55, 95, 50>>
        /\ data_list[g].edit_path_start = <<51>>
        /\ data_list[g].edit_path_end = <<55>>
        /\ data_list[g].edit_path_step = <<50>>

\* The errors a decode may end in by design: the graph-count and edge-index
\* ValueError, EOFError of a short read, and the UTF-8 decoding error.
DecodeErrors == {"ValueError: graph count", "ValueError: edge index", "EOFError",
                 "UnicodeDecodeError"}

\* C11: a decode of a container holding a graph name of fewer than 3
\* underscore-delimited tokens ends in a validation failure of the
\* corrupt-container class (ValueError) or in another of the decode errors,
\* never in a returned list and never in an index error of the token list.
\* (A call ended by UnboundLocalError is the case of C6 and is left out.)
C11_ShortNameIsCorruptContainer ==
    (/\ pc \in {"done", "raised"}
     /\ err # "UnboundLocalError"
     /\ \E g \in 1..Len(headers) : Len(Split(headers[g].name)) < 3)
    => (pc = "raised" /\ err \in DecodeErrors)

\* The bytes the read of log entry e asks for: 4 for the 32-bit fields, the
\* size_t width for counts and endpoints, the length prefix and the bytes it
\* announces for a string, 8 per float of a block.
Wanted(e) ==
    CASE e.kind \in {"format_version", "graph_count", "type", "node_feature_count",
                     "edge_feature_count"} -> 4
      [] e.kind \in {"node_count", "edge_count", "edge_u", "edge_v"} -> size_t_bytes
      [] e.kind \in {"name", "node_feature_name", "edge_feature_name"} ->
             IF e.at + 4 > Len(file) THEN 4
             ELSE 4 + UnpackUnsigned(SubSeq(file, e.at + 1, e.at + 4), endian)
      [] e.kind = "node_features" ->
             8 * headers[e.g].node_number * headers[e.g].node_features
      [] e.kind = "edge_features" -> 8 * headers[e.g].edge_features

\* C12: a read of pass 1 or pass 2 that asks for more bytes than the file
\* has left is the last read of the call, which ends in EOFError and
\* returns nothing (no partial list either).
C12_TruncatedReadFails ==
    \A j \in 1..Len(reads) :
        reads[j].at + Wanted(reads[j]) > Len(file) =>
            /\ j = Len(reads)
            /\ pc = "raised"
            /\ err = "EOFError"
            /\ result = Unbound

\* C12 witness: the file ends inside the second graph's payload, after the
\* record of the first graph was built.
C12_Witness ==
    /\ pc = "raised" /\ err = "EOFError"
    /\ Len(data_list) = 1
    /\ reads[Len(reads)].kind \in Pass2Kinds
    /\ reads[Len(reads)].g = 2

\* The record d holds what the writer put in the file for the graph gd: its
\* name, its node count and its node features (absent, or of its shape).
HoldsGraph(d, gd) ==
    /\ d.bgf_name = NameOf(gd.name)
    /\ d.num_nodes = gd.n
    /\ IF gd.nf = 0 THEN d.x = None
       ELSE d.x.kind = "tensor" /\ d.x.shape = <<gd.n, gd.nf>>

\* C13 as stated: a decode with size_t_bytes = 4 of a container written with
\* 8-byte size fields ends in the graph-count ValueError or in EOFError (or
\* in another error), and never returns a list that does not hold the data
\* of the container.
C13_WidthMismatchFails ==
    (container.written = 8 /\ size_t_bytes = 4 /\ pc = "done") =>
        /\ Len(result) = Len(container.graphs)
        /\ \A j \in 1..Len(result) : HoldsGraph(result[j], container.graphs[j])

\* C13 as amended: a decode with size_t_bytes = 4 of a container written
\* with 8-byte size fields whose graph-count field is outside
\* 0..10_000_000 ends in the graph-count ValueError with no header read and
\* nothing returned.
C13_WidthMismatchCountCheck ==
    (/\ container.written = 8 /\ size_t_bytes = 4
     /\ \E j \in 1..Len(reads) : reads[j].kind = "graph_count" /\ reads[j].ok
     /\ (graph_number < 0 \/ graph_number > MaxGraphNumber))
    => /\ pc = "raised" /\ err = "ValueError: graph count"
       /\ Len(reads) = 2 /\ headers = <<>> /\ result = Unbound

\* C13 witness: such a decode has rejected a negative graph count.
C13_Witness ==
    /\ container.written = 8 /\ size_t_bytes = 4
    /\ graph_number < 0
    /\ pc = "raised" /\ err = "ValueError: graph count"

\* The call c has ended, by returning the dataset or by an exception.
Ended(c) == calls[c].pc \in {"returned", "failed"}

\* C14: a call that starts with a whole processed file at
\* <root>/processed/data.pt returns the collection loaded from it and never
\* opens the source: no step of it, download() included, makes it fail.
C14_CacheHitNeedsNoSource ==
    \A c \in Callers :
        (calls[c].cached /\ Ended(c)) =>
            /\ calls[c].pc = "returned"
            /\ \A j \in 1..Len(calls[c].steps) : calls[c].steps[j] # "open"

\* The steps of a call that finds no processed file, when nothing fails:
\* download check, process check, open and decode of the source, the
\* pre_filter and pre_transform statements, collate, makedirs, the save and
\* the load.
FullSteps(d) ==
    <<"init", d, "process", "open", "decoded", "pre_filter", "pre_transform", "collate",
      "makedirs", "save_open", "save_write", "save_write", "load">>

\* The steps done by call c, a failed decode counted as the decode.
StepsOf(c) ==
    [j \in 1..Len(calls[c].steps) |->
        IF calls[c].steps[j] = "decode_raised" THEN "decoded" ELSE calls[c].steps[j]]

Did(c, step) == \E j \in 1..Len(calls[c].steps) : calls[c].steps[j] = step

PayloadReads == {"node_features", "edge_u", "edge_v", "edge_features"}

C16_SecondCallRestores ==
    \A c \in Callers : \A b \in calls[c].after :
        Ended(c) =>
            /\ calls[c].pc = "returned"
            /\ calls[c].data_slices = calls[b].data_slices
            /\ ~Did(c, "open")
            /\ ~Did(c, "save_open")

C16_Witness ==
    /\ 1 \in calls[2].after
    /\ calls[2].pc = "returned"
    /\ Did(1, "decoded")
    /\ Len(calls[1].data_list) = 2

\* C17: at every instant the processed file is absent or a whole cache; no
\* reader can find a partly written file.
C17_CacheAbsentOrWhole == cache.exists => Loadable(cache.cells)

\* C18: when both calls have found no processed file, persisted their own
\* output and ended, the processed file is the whole output of one of them,
\* and both calls have returned a whole collection.
C18_ConcurrentMissBothReturn ==
    (\A c \in Callers : Did(c, "save_open") /\ Ended(c)) =>
        /\ Loadable(cache.cells)
        /\ \E c \in Callers : cache.cells[1].of = calls[c].collated
        /\ \A c \in Callers :
               /\ calls[c].pc = "returned"
               /\ \E b \in Callers : calls[c].data_slices = calls[b].collated

\* An attribute of a restored record; None when the record has none.
Attr(r, k) == IF k \in DOMAIN r THEN r[k] ELSE None

\* The same matrix, or both absent.
SameMatrix(a, b) ==
    IF a = None \/ b = None THEN a = b
    ELSE a.shape = b.shape /\ a.data = b.data

\* The restored record r agrees with the decoded record d on the presence
\* and the values of the feature matrices, the edge endpoints and the
\* fields derived from the name.
SameRecord(r, d) ==
    /\ SameMatrix(Attr(r, "x"), d.x)
    /\ SameMatrix(Attr(r, "edge_attr"), d.edge_attr)
    /\ SameMatrix(Attr(r, "edge_index"), d.edge_index)
    /\ Attr(r, "edit_path_start") = d.edit_path_start
    /\ Attr(r, "edit_path_end") = d.edit_path_end
    /\ Attr(r, "edit_path_step") = d.edit_path_step

\* C19: the collection a call returns after decoding has as many records as
\* were decoded, and indexing it at i gives the decoded record i: same
\* presence of the feature matrices, same values, same endpoints, same
\* edit_path fields.
C19_RoundTrip ==
    \A c \in Callers :
        (calls[c].pc = "returned" /\ Did(c, "decoded")) =>
            /\ DatasetLen(calls[c].data_slices) = Len(calls[c].data_list)
            /\ \A j \in 1..Len(calls[c].data_list) :
                   SameRecord(Get(calls[c].data_slices, j - 1), calls[c].data_list[j])

MatrixKeys == {"x", "edge_index", "edge_attr"}

\* What graph gd declares for a matrix of record d: its node count for x, its
\* edge count for edge_index and edge_attr, and nothing for a matrix the
\* record does not have.
DeclaredCount(d, gd, k) ==
    IF k \notin Keys(d) THEN 0
    ELSE IF k = "x" THEN gd.n ELSE gd.m

\* C20: after collate of n records, every matrix key that some record has
\* has an offset sequence of length n + 1 that never decreases and whose
\* steps are the counts the records declare for the key, zero for a record
\* without it.
C20_OffsetsPerKey ==
    \A c \in Callers :
        calls[c].collated # Unbound =>
            LET dl == calls[c].data_list
                sl == calls[c].collated.slices
            IN  \A k \in MatrixKeys :
                    (\E j \in 1..Len(dl) : k \in Keys(dl[j])) =>
                        /\ sl # None
                        /\ k \in DOMAIN sl
                        /\ Len(sl[k]) = Len(dl) + 1
                        /\ \A j \in 1..Len(dl) :
                               /\ sl[k][j] <= sl[k][j + 1]
                               /\ sl[k][j + 1] - sl[k][j]
                                    = DeclaredCount(dl[j], container.graphs[j], k)

\* C21: indexing a collection of length len fails with IndexError at every
\* index outside 0..len-1, the negative ones included, and gives the record
\* of that position at every index inside; the collection is the same
\* afterwards.
C21_GetOutsideRangeFails ==
    \A c \in Callers :
        calls[c].access # Unbound =>
            LET a == calls[c].access
                ds == calls[c].data_slices
            IN  IF a.idx < 0 \/ a.idx >= DatasetLen(ds)
                THEN ~a.ok /\ a.err = "IndexError"
                ELSE a.ok /\ a.value = Get(ds, a.idx)

\* exporter.py:18, 137: the text of the exceptions that end pass 2,
\* "Unexpected EOF." and "Invalid edge index; check endianness/size_t.",
\* character by character.
ErrorMessage(e) ==
    CASE e = "EOFError" ->
            <<85, 110, 101, 120, 112, 101, 99, 116, 101, 100, 32, 69,
            79, 70, 46>>
      [] e = "ValueError: edge index" ->
            <<73, 110, 118, 97, 108, 105, 100, 32, 101, 100, 103, 101,
            32, 105, 110, 100, 101, 120, 59, 32, 99, 104, 101, 99, 107,
            32, 101, 110, 100, 105, 97, 110, 110, 101, 115, 115, 47,
            115, 105, 122, 101, 95, 116, 46>>
      [] OTHER -> <<>>

\* The text t occurs in the text s.
Contains(s, t) ==
    \E k \in 0..(Len(s) - Len(t)) : SubSeq(s, k + 1, k + Len(t)) = t

\* C22: when pass 2 ends in a short read or an invalid edge index, the text
\* of the exception holds the name of the graph that was being decoded.
C22_Pass2ErrorNamesGraph ==
    (/\ pc = "raised"
     /\ hi >= 1
     /\ err \in {"EOFError", "ValueError: edge index"})
    => Contains(ErrorMessage(err), headers[hi].name)

\* The feature values the writer put in the file for graph g: the node
\* feature matrix row by row, and the feature row of each edge.
WrittenNodeFeatures(gd, g) ==
    [r \in 1..gd.n |-> [c \in 1..gd.nf |-> NodeValue(g, r - 1, c - 1)]]
WrittenEdgeFeatures(gd, g) ==
    [k \in 1..gd.m |-> [c \in 1..gd.ef |-> EdgeValue(g, k, c - 1)]]

\* C23: a successful decode gives every record the feature values that were
\* written, whether the container was written and is read big-endian or
\* little-endian: the node feature matrix of every graph with feature
\* columns, the edge feature matrix of every graph with edges and edge
\* feature columns.
C23_BlocksRespectEndian ==
    (pc = "done" /\ container.written = size_t_bytes /\ Len(result) = Len(container.graphs)) =>
        \A g \in 1..Len(result) :
            LET gd == container.graphs[g]
            IN  /\ gd.nf > 0 => result[g].x.data = WrittenNodeFeatures(gd, g)
                /\ (gd.m > 0 /\ gd.ef > 0) =>
                       result[g].edge_attr.data = WrittenEdgeFeatures(gd, g)

\* C24: the reads of a decode follow each other without a gap and without
\* going back: the first starts at byte 0, each next one (the first read of
\* pass 2 after the last of pass 1 included) starts where the one before
\* ended, a read that succeeds ends exactly the bytes it asked for further
\* on, no read ends before it starts or beyond the file, and the position
\* of f is the end of the last read.
C24_ReadsAreContiguous ==
    /\ pos = IF reads = <<>> THEN 0 ELSE reads[Len(reads)].to
    /\ \A j \in 1..Len(reads) :
           /\ reads[j].at = IF j = 1 THEN 0 ELSE reads[j - 1].to
           /\ reads[j].at <= reads[j].to /\ reads[j].to <= Len(file)
           /\ reads[j].ok => reads[j].to = reads[j].at + Wanted(reads[j])

\* C24 witness: a decode of two graphs has returned, having read a node
\* feature block and an edge feature row.
C24_Witness ==
    /\ pc = "done" /\ Len(result) = 2
    /\ \E j \in 1..Len(reads) : reads[j].kind = "node_features" /\ reads[j].to > reads[j].at
    /\ \E j \in 1..Len(reads) : reads[j].kind = "edge_features"

\* C25: the read of a string takes the 4 bytes of its length prefix n as an
\* unsigned number and then exactly n bytes. With n = 0 it gives the empty
\* string and has consumed the prefix only; with fewer than n bytes left it
\* ends in EOFError; a run of n bytes that is valid UTF-8 gives its text,
\* and one that is not ends the call in UnicodeDecodeError, no string given.
C25_ReadString ==
    (reads # <<>> /\ reads[Len(reads)].kind = "name") =>
        LET at == reads[Len(reads)].at
            len == UnpackUnsigned(SubSeq(file, at + 1, at + 4), endian)
            body == SubSeq(file, at + 5, at + 4 + len)
        IN  IF len = 0
            THEN pc = "gtype" /\ name = <<>> /\ pos = at + 4
            ELSE IF at + 4 + len > Len(file)
            THEN pc = "raised" /\ err = "EOFError" /\ name = <<>>
            ELSE /\ pos = at + 4 + len
                 /\ IF Utf8Valid(body)
                    THEN pc = "gtype" /\ name = Utf8Decode(body)
                    ELSE pc = "raised" /\ err = "UnicodeDecodeError" /\ name = <<>>

\* C25 witness: the three bytes announced by the prefix were read, U+00E9
\* followed by the byte FF, and the call ended in UnicodeDecodeError.
C25_Witness ==
    /\ pc = "raised" /\ err = "UnicodeDecodeError"
    /\ reads[Len(reads)].kind = "name"
    /\ SubSeq(file, 13, Len(file)) = <<195, 169, 255>>
    /\ pos = 15

\* The tensor buffers a record refers to by edge_index and edge_attr.
EdgeBuffers(d) ==
    {t.buf : t \in {q \in {d.edge_index, d.edge_attr} : q # None /\ q # Unbound}}

\* C26: in the list a decode returns, every record's edge_index has the
\* number of columns its own header declares, whatever the graph before it
\* held, and no two records refer to the same edge_index or edge_attr
\* buffer.
C26_RecordsIndependent ==
    pc = "done" =>
        /\ \A g \in 1..Len(result) :
               result[g].edge_index.shape = <<2, headers[g].edge_number>>
        /\ \A g \in 1..Len(result) : \A k \in 1..Len(result) :
               g # k => EdgeBuffers(result[g]) \cap EdgeBuffers(result[k]) = {}

\* C27: once the decode of the source has failed inside process() of some
\* call, that call has written nothing and has failed, there is no
\* processed file, and every call that has ended (a later one included) did
\* not find a processed file but opened the source and failed in the decode
\* as well.
C27_FailedDecodeLeavesNoCache ==
    \A c \in Callers :
        Did(c, "decode_raised") =>
            /\ calls[c].pc = "failed"
            /\ ~Did(c, "save_open")
            /\ ~cache.exists
            /\ \A b \in Callers :
                   Ended(b) => /\ ~Did(b, "processed_found")
                               /\ Did(b, "open") /\ Did(b, "decode_raised")

\* C27 witness: a call that started after a call had failed on an invalid
\* edge index has decoded the source again and failed the same way.
C27_Witness ==
    /\ 1 \in calls[2].ended_before
    /\ calls[1].pc = "failed" /\ calls[1].err = "ValueError: edge index"
    /\ calls[2].pc = "failed" /\ Did(2, "decode_raised")

\* C28: the collection a call returns for its source path was written by a
\* call for that path, never by a call for another path.
C28_CacheBelongsToSource ==
    \A c \in Callers : calls[c].pc = "returned" => calls[c].loaded_path = SourcePath

\* The i-th entry of the hook log of call c is a call of hook h on record d.
HookCall(c, at, h, d) == calls[c].hooks[at] = <<h, d>>

\* The list process() hands on after its two statements: the decoded
\* records the filter accepts, in their order, each transformed.
Expected(c) ==
    LET dec == calls[c].decoded
        acc == IF pre_filter = "none" THEN [j \in 1..Len(dec) |-> j]
               ELSE AcceptedOf(pre_filter, dec)
    IN  [j \in 1..Len(acc) |->
            IF pre_transform = "none" THEN dec[acc[j]]
            ELSE Transformed(pre_transform, dec[acc[j]])]

\* C29: every call of pre_transform comes after every call of pre_filter
\* and is on a decoded record that pre_filter accepted; what process()
\* collates, and what the processed file holds once it is saved, is the
\* list of the accepted records, transformed, in their decoded order.
C29_FilterThenTransform ==
    \A c \in Callers :
        /\ \A a \in 1..Len(calls[c].hooks) : \A b \in 1..Len(calls[c].hooks) :
               (calls[c].hooks[a][1] = "pre_transform" /\ calls[c].hooks[b][1] = "pre_filter")
                   => b < a
        /\ \A a \in 1..Len(calls[c].hooks) :
               calls[c].hooks[a][1] = "pre_transform" =>
                   /\ \E j \in 1..Len(calls[c].decoded) :
                          calls[c].hooks[a][2] = calls[c].decoded[j]
                   /\ pre_filter # "none" => Accepts(pre_filter, calls[c].hooks[a][2])
        /\ calls[c].pc \in {"collate", "makedirs", "save", "writing", "load", "returned"}
               => calls[c].data_list = Expected(c)
        /\ calls[c].pc \in {"load", "returned"} /\ Did(c, "save_open")
               => LET r == CollateList(Expected(c))
                  IN  cache.cells = Ser([data |-> r.data, slices |-> r.slices])

\* C29 witness: of three decoded records the filter accepted the first and
\* the third, both were transformed, and the call has returned them.
C29_Witness ==
    /\ calls[1].pc = "returned"
    /\ pre_filter = "two_nodes" /\ pre_transform = "mark"
    /\ Len(calls[1].decoded) = 3
    /\ calls[1].decoded[1].num_nodes = 2
    /\ calls[1].decoded[2].num_nodes = 1
    /\ calls[1].decoded[3].num_nodes = 2
    /\ Len(calls[1].data_list) = 2
    /\ HookCall(1, 4, "pre_transform", calls[1].decoded[1])
    /\ HookCall(1, 5, "pre_transform", calls[1].decoded[3])

\* The format version at the head of the file, as the reader's byte order
\* gives it.
LeadingVersion == ReadInt(file, 0, endian).val

\* C30: when the loader has returned, every record carries the format
\* version read once at the head of the file and the node count of its own
\* header, and carries the header's two feature-name lists if
\* keep_feature_names is true and neither attribute if it is false.
C30_RecordsCarryHeaderFacts ==
    pc = "done" =>
        /\ Len(result) = Len(headers)
        /\ \A g \in 1..Len(result) :
               /\ result[g].bgf_version = LeadingVersion
               /\ result[g].num_nodes = headers[g].node_number
               /\ IF keep_feature_names
                  THEN /\ result[g].node_feature_names = headers[g].node_feature_names
                       /\ result[g].edge_feature_names = headers[g].edge_feature_names
                  ELSE /\ result[g].node_feature_names = Unbound
                       /\ result[g].edge_feature_names = Unbound

\* C30 witness: a container of format version 2 decoded into a record
\* that carries version 2, its header's node count and the header's names.
C30_Witness ==
    /\ pc = "done"
    /\ Len(result) >= 1
    /\ LeadingVersion = 2
    /\ keep_feature_names
    /\ result[1].bgf_version = 2
    /\ result[1].num_nodes = headers[1].node_number
    /\ result[1].num_nodes >= 1
    /\ result[1].node_feature_names = headers[1].node_feature_names

====
